---- MODULE Spec2Model ----
(***************************************************************************)
(* A model of font-indexer.py: the directory scan, the -n truncation, the  *)
(* per-font loop of main with its coverage / metadata / metric / kerning   *)
(* checks and thumbnail rendering, and the final HTML write.               *)
(*                                                                         *)
(* The font-parsing and imaging libraries are external: a font file is     *)
(* represented by the answers those libraries give for it (whether it      *)
(* opens, its best cmap, its advance widths, ...).  Everything the         *)
(* repository's own code computes from those answers is modelled as the    *)
(* code computes it.                                                       *)
(***************************************************************************)
EXTENDS Integers, Sequences, FiniteSets, TLC

(***************************************************************************)
(* Bounds of the model.                                                    *)
(***************************************************************************)
MaxFiles == 2          \* files present under the font directory
MaxNumber == 2         \* largest value given with -n/--number
NumVaried == 2         \* leading required characters whose glyphs vary
MaxWidth == 2          \* largest ordinary advance width of a varied glyph
MaxSpaceWidth == 7     \* largest advance width of the space glyph
MaxUnitsPerEm == 1     \* largest unitsPerEm of a font

(***************************************************************************)
(* Characters.                                                             *)
(***************************************************************************)
\* font-indexer.py:89 and :109, the same literal in both functions.
required_chars ==
  << "A","B","C","D","E","F","G","H","I","J","K","L","M",
     "N","O","P","Q","R","S","T","U","V","W","X","Y","Z",
     "a","b","c","d","e","f","g","h","i","j","k","l","m",
     "n","o","p","q","r","s","t","u","v","w","x","y","z",
     "0","1","2","3","4","5","6","7","8","9" >>

Space == " "

RequiredSet == { required_chars[i] : i \in 1..Len(required_chars) }
Chars == RequiredSet \cup {Space}

\* The characters whose mapping and width the model varies, and the rest.
Varied == { required_chars[i] : i \in 1..NumVaried }
Rest == RequiredSet \ Varied

(***************************************************************************)
(* Results of calls: a value returned, or an exception raised.             *)
(***************************************************************************)
Return(v) == [exc |-> FALSE, ret |-> v]
Raise == [exc |-> TRUE]

(***************************************************************************)
(* A font file, as the libraries see it.                                   *)
(*   openable      TTFont(font_path) succeeds                              *)
(*   cmap          the code points of getBestCmap(); {} stands for both    *)
(*                 None and an empty dict (each is falsy at `not cmap`)    *)
(*   hmtx          advance width of the glyph each character maps to       *)
(*   units_per_em  font['head'].unitsPerEm                                 *)
(*   metric_tables font['hmtx'] and font['head'] can be read               *)
(*   name_table    font['name'] can be read                                *)
(*   names         nameID -> string of the naming records                  *)
(*   truetype      ImageFont.truetype(font_path, size) succeeds            *)
(*   probe         pixel widths of "A B C D E", "ABCDE" and " "            *)
(*   drawable      measuring, drawing and saving the text succeed          *)
(***************************************************************************)
NominalWidth == 1

Names124 == [ i \in {1, 2, 4} |->
                IF i = 1 THEN "Demo" ELSE IF i = 2 THEN "Regular" ELSE "Demo Regular" ]

GoodProbe == [with_spaces |-> 9, no_spaces |-> 5, space |-> 1]
KernProbe == [with_spaces |-> 10, no_spaces |-> 5, space |-> 1]

Font(openable, cmap, hmtx, upm, tables, name_table, truetype, probe, drawable) ==
  [ openable |-> openable, cmap |-> cmap, hmtx |-> hmtx, units_per_em |-> upm,
    metric_tables |-> tables, name_table |-> name_table, names |-> Names124,
    truetype |-> truetype, probe |-> probe, drawable |-> drawable ]

NominalHmtx == [ c \in Chars |-> NominalWidth ]

\* A file that is no font at all: nothing opens it.
NotAFont == Font(FALSE, {}, NominalHmtx, 1, FALSE, FALSE, FALSE, GoodProbe, FALSE)

(***************************************************************************)
(* Character coverage checker.                                             *)
(***************************************************************************)
has_required_chars_try(f) ==
  IF ~f.openable THEN Raise
  ELSE IF f.cmap = {} THEN Return(FALSE)
  ELSE IF \E i \in 1..Len(required_chars) : required_chars[i] \notin f.cmap
       THEN Return(FALSE)
       ELSE Return(TRUE)

\* Variants: without the except clause; looking at the last character only.
has_required_chars_nocatch(f) == has_required_chars_try(f)
has_required_chars_last(f) ==
  IF ~f.openable \/ f.cmap = {} THEN Return(FALSE)
  ELSE Return(required_chars[Len(required_chars)] \in f.cmap)

has_required_chars(f) ==
  LET r == has_required_chars_try(f)
  IN  IF r.exc THEN Return(FALSE) ELSE r

(***************************************************************************)
(* Metric quality checker.                                                 *)
(***************************************************************************)
\* sum(alphanumeric_widths), added up value by value.
RECURSIVE SumValues(_, _)
SumValues(s, values) ==
  IF values = {} THEN 0
  ELSE LET v == CHOOSE x \in values : TRUE
       IN  v * Cardinality({ i \in DOMAIN s : s[i] = v }) + SumValues(s, values \ {v})

SumSeq(s) == SumValues(s, { s[i] : i \in DOMAIN s })

\* Variant: `<` for `==`.
zero_width_negative(advance_width) == advance_width < 0
zero_width(advance_width) == advance_width = 0

excessive_width(advance_width, units_per_em) == advance_width > units_per_em * 10

\* The loop over required_chars, lines 111-122.  It returns at the first
\* mapped character, in the order of required_chars, whose width is zero or
\* excessive (zero is tested first); otherwise it leaves the widths of the
\* mapped characters, in order.
scan_widths(f) ==
  LET failing == { i \in 1..Len(required_chars) :
                     /\ required_chars[i] \in f.cmap
                     /\ \/ zero_width(f.hmtx[required_chars[i]])
                        \/ excessive_width(f.hmtx[required_chars[i]], f.units_per_em) }
      mapped == SelectSeq(required_chars, LAMBDA c : c \in f.cmap)
  IN  IF failing # {}
      THEN LET i == CHOOSE k \in failing : \A j \in failing : k <= j
               char == required_chars[i]
           IN  IF zero_width(f.hmtx[char])
               THEN [returned |-> TRUE,
                     value |-> <<FALSE, <<"Character", char, "has zero width">> >>]
               ELSE [returned |-> TRUE,
                     value |-> <<FALSE, <<"Character", char, "has excessively large width">> >>]
      ELSE [returned |-> FALSE,
            widths |-> [ i \in 1..Len(mapped) |-> f.hmtx[mapped[i]] ]]

\* space_advance_width > (sum(widths) / len(widths)) * 3.  The code divides
\* and multiplies in binary floating point; for advance widths of 16 bits
\* and at most 62 glyphs the float comparison against an integer agrees
\* with the exact one, which is cross-multiplied here.
\* Variant: `>=` for `>`.
space_too_wide_ge(space_advance_width, alphanumeric_widths) ==
  space_advance_width * Len(alphanumeric_widths) >= 3 * SumSeq(alphanumeric_widths)
space_too_wide(space_advance_width, alphanumeric_widths) ==
  space_advance_width * Len(alphanumeric_widths) > 3 * SumSeq(alphanumeric_widths)

\* Line 128.  Variant: the test left out.
space_missing_never(cmap) == FALSE
space_missing(cmap) == Space \notin cmap

check_font_metrics_try(f) ==
  IF ~f.openable THEN Raise
  ELSE IF f.cmap = {} THEN Return(<<FALSE, <<"No cmap table found">> >>)
  ELSE IF ~f.metric_tables THEN Raise
  ELSE LET scan == scan_widths(f)
       IN  IF scan.returned THEN Return(scan.value)
           ELSE IF scan.widths = << >>
           THEN Return(<<FALSE, <<"No alphanumeric characters found">> >>)
           ELSE IF space_missing(f.cmap)
           THEN Return(<<FALSE, <<"No space character">> >>)
           ELSE IF space_too_wide(f.hmtx[Space], scan.widths)
           THEN Return(<<FALSE, <<"Space character is excessively wide">> >>)
           ELSE Return(<<TRUE, << >> >>)

check_font_metrics(f) ==
  LET r == check_font_metrics_try(f)
  IN  IF r.exc THEN Return(<<FALSE, <<"Could not check metrics">> >>) ELSE r

(***************************************************************************)
(* Font metadata reader.                                                   *)
(***************************************************************************)
\* names.get(k, 'N/A')
NamesGet(names, k) == IF k \in DOMAIN names THEN names[k] ELSE "N/A"

\* Python's None; `not info` is true of it.
None == << >>
Falsy(v) == DOMAIN v = {}

get_font_info_try(f) ==
  IF ~f.openable THEN Raise
  ELSE IF ~f.name_table THEN Raise
  ELSE Return([ family    |-> NamesGet(f.names, 1),
                style     |-> NamesGet(f.names, 2),
                full_name |-> NamesGet(f.names, 4),
                version   |-> NamesGet(f.names, 5),
                copyright |-> NamesGet(f.names, 0) ])

get_font_info(f) ==
  LET r == get_font_info_try(f)
  IN  IF r.exc THEN Return(None) ELSE r

(***************************************************************************)
(* Kerning heuristic checker.                                              *)
(***************************************************************************)
slow_check_font_try(f) ==
  IF ~f.truetype THEN Raise
  ELSE IF (f.probe.with_spaces - f.probe.no_spaces) > (f.probe.space * 4)
       THEN Return(<<FALSE, <<"Potential kerning issue">> >>)
       ELSE Return(<<TRUE, << >> >>)

slow_check_font(f) ==
  LET r == slow_check_font_try(f)
  IN  IF r.exc THEN Return(<<FALSE, <<"Could not perform slow check">> >>) ELSE r

(***************************************************************************)
(* Text rasterizer.  A TRUE return means img.save wrote image_path.        *)
(***************************************************************************)
render_text_try(f) ==
  IF ~f.truetype THEN Raise
  ELSE IF ~f.drawable THEN Raise
  ELSE Return(TRUE)

render_text(f) ==
  LET r == render_text_try(f)
  IN  IF r.exc THEN Return(FALSE) ELSE r

(***************************************************************************)
(* Paths.  A directory is named by one letter, a file by a one-letter stem *)
(* and a three-letter extension, so comparing paths component by component *)
(* is comparing the joined strings character by character.                 *)
(***************************************************************************)
Roots == {"a", "b"}
FileNames == { <<"x", "ttf">>, <<"y", "TTF">>, <<"z", "txt">> }

\* The component strings in the order of their code points.
AsciiOrder == << "TTF", "a", "b", "ttf", "txt", "x", "y", "z" >>
StrRank(s) == CHOOSE i \in 1..Len(AsciiOrder) : AsciiOrder[i] = s

\* str.lower() on an extension.
lower(ext) == IF ext = "TTF" THEN "ttf" ELSE ext

\* os.path.join(root, file)
PathJoin(root, file) == <<root>> \o file
\* os.path.basename(font_path)
basename(font_path) == Tail(font_path)

RECURSIVE SeqLess(_, _)
SeqLess(p, q) ==
  IF p = << >> THEN q # << >>
  ELSE IF q = << >> THEN FALSE
  ELSE IF Head(p) = Head(q) THEN SeqLess(Tail(p), Tail(q))
  ELSE StrRank(Head(p)) < StrRank(Head(q))

RECURSIVE Insert(_, _)
Insert(x, s) ==
  IF s = << >> THEN <<x>>
  ELSE IF SeqLess(x, Head(s)) THEN <<x>> \o s
  ELSE <<Head(s)>> \o Insert(x, Tail(s))

\* sorted(fonts)
RECURSIVE sorted(_)
sorted(s) == IF s = << >> THEN << >> ELSE Insert(Head(s), sorted(Tail(s)))

(***************************************************************************)
(* Directory scanner.  walk is what os.walk yields: the directories in      *)
(* listing order, each with its files in listing order.                    *)
(***************************************************************************)
RECURSIVE ttf_of(_, _)
ttf_of(root, files) ==
  IF files = << >> THEN << >>
  ELSE LET file == Head(files)
       IN  (IF lower(file[2]) = "ttf" THEN << PathJoin(root, file) >> ELSE << >>)
           \o ttf_of(root, Tail(files))

RECURSIVE find_fonts(_)
find_fonts(w) ==
  IF w = << >> THEN << >>
  ELSE ttf_of(Head(w)[1], Head(w)[2]) \o find_fonts(Tail(w))

Min(a, b) == IF a < b THEN a ELSE b
Max(a, b) == IF a > b THEN a ELSE b

\* fonts[:n]
SliceTo(s, n) ==
  IF n >= 0 THEN SubSeq(s, 1, Min(n, Len(s)))
            ELSE SubSeq(s, 1, Max(Len(s) + n, 0))

\* Line 194, applied to the list in discovery order.  Variants: on the
\* sorted list; not at all.
truncate_sorted(fonts, number) == SliceTo(sorted(fonts), number)
truncate_all(fonts, number) == fonts
truncate(fonts, number) == SliceTo(fonts, number)

(***************************************************************************)
(* The font files main may meet: every combination of the answers that     *)
(* steer its loop.                                                         *)
(***************************************************************************)
FullCmap == RequiredSet \cup {Space}
ZeroBHmtx == [ c \in Chars |-> IF c = "B" THEN 0 ELSE NominalWidth ]

MainFonts ==
  {NotAFont} \cup
  { Font(TRUE, cmap, hmtx, 1, TRUE, name_table, truetype, probe, drawable) :
      cmap \in {FullCmap, FullCmap \ {"A"}, RequiredSet},
      hmtx \in {NominalHmtx, ZeroBHmtx},
      name_table \in BOOLEAN, truetype \in BOOLEAN,
      probe \in {GoodProbe, KernProbe}, drawable \in BOOLEAN }

(***************************************************************************)
(* The file system under --font-dir: two sibling directories, each listed  *)
(* in some order, with at most MaxFiles files between them.                *)
(***************************************************************************)
Listings ==
  { l \in UNION { [1..n -> FileNames] : n \in 0..MaxFiles } :
      \A i, j \in DOMAIN l : l[i] = l[j] => i = j }

Walks ==
  { << <<r1, l1>>, <<r2, l2>> >> :
      r1 \in Roots, r2 \in Roots, l1 \in Listings, l2 \in Listings }

ValidWalk(w) ==
  /\ w[1][1] # w[2][1]
  /\ Len(w[1][2]) + Len(w[2][2]) <= MaxFiles

\* args.number: << >> when -n is not given (None), else <<N>>.
NoNumber == << >>
Numbers == {NoNumber} \cup { <<n>> : n \in -1..MaxNumber }

output_dir == "renders"

(***************************************************************************)
(* State.                                                                  *)
(***************************************************************************)
VARIABLES
  pc,                     \* "start", "loop", "write", "done", "crashed"; "metrics" in MetricSpec
  walk,                   \* the file system, as os.walk yields it
  number, slow_check,     \* args.number, args.slow_check
  fonts,                  \* main's `fonts` after the -n truncation
  font_iterator,          \* sorted(fonts)
  idx,                    \* position of the for loop in font_iterator
  total_processed_fonts, fonts_with_issues,
  table_rows,             \* one record per <tr> ... </tr> group appended
  files,                  \* image_path -> the font whose rendering it holds
  html,                   \* what the HTML file holds once written
  log,                    \* history: what each iteration found for its font
  mfont, mresult          \* MetricSpec: the font checked and the checker's result

vars == << pc, walk, number, slow_check, fonts, font_iterator, idx,
           total_processed_fonts, fonts_with_issues, table_rows, files, html,
           log, mfont, mresult >>

NotWritten == << >>
NotChecked == << >>

Init ==
  /\ pc = "start"
  /\ walk \in { w \in Walks : ValidWalk(w) }
  /\ number \in Numbers
  /\ slow_check \in BOOLEAN
  /\ fonts = << >>
  /\ font_iterator = << >>
  /\ idx = 1
  /\ total_processed_fonts = 0
  /\ fonts_with_issues = 0
  /\ table_rows = << >>
  /\ files = << >>
  /\ html = NotWritten
  /\ log = << >>
  /\ mfont = NotAFont
  /\ mresult = NotChecked

(***************************************************************************)
(* main, lines 191-200: scan, truncate, reset the counters, sort.          *)
(***************************************************************************)
Scan ==
  /\ pc = "start"
  /\ LET found == find_fonts(walk)
         cut == IF number # NoNumber THEN truncate(found, number[1]) ELSE found
     IN  /\ fonts' = cut
         /\ font_iterator' = sorted(cut)
  /\ total_processed_fonts' = 0
  /\ fonts_with_issues' = 0
  /\ table_rows' = << >>
  /\ idx' = 1
  /\ pc' = "loop"
  /\ UNCHANGED << walk, number, slow_check, files, html, log, mfont, mresult >>

(***************************************************************************)
(* One iteration of the loop, lines 204-239, on the font file f found at   *)
(* font_path.  The result says what main does with it.                     *)
(***************************************************************************)
image_path_of(font_path) == <<output_dir>> \o basename(font_path) \o <<"png">>

PassIcon == "&#9989;"
FailIcon == "&#10060;"

\* Line 220.  Variant: the two icons exchanged.
quality_icon_swapped(metrics_ok) == IF metrics_ok THEN FailIcon ELSE PassIcon
quality_icon(metrics_ok) == IF metrics_ok THEN PassIcon ELSE FailIcon

quality_row(font_path, info, metrics_ok, quality_reason) ==
  [ full_name    |-> info.full_name,
    filename     |-> basename(font_path),
    style        |-> info.style,
    title_attr   |-> IF ~metrics_ok THEN quality_reason ELSE << >>,
    quality_icon |-> quality_icon(metrics_ok),
    image_path   |-> image_path_of(font_path),
    href         |-> font_path ]

\* What is true of font file f, whatever the checkers make of it: it opens,
\* its cmap has all of A-Z, a-z, 0-9, its naming table reads, it rasterizes.
Facts(f) ==
  [ openable   |-> f.openable,
    covers     |-> f.openable /\ RequiredSet \subseteq f.cmap,
    named      |-> f.openable /\ f.name_table,
    rasterizes |-> f.truetype /\ f.drawable ]

Skip(f, required, info) ==
  [ crashed |-> FALSE, facts |-> Facts(f), required |-> required, info |-> info,
    metrics_ok |-> FALSE, quality_reason |-> << >>, rendered |-> FALSE ]
Crash(f) ==
  [ crashed |-> TRUE, facts |-> Facts(f), required |-> FALSE, info |-> << >>,
    metrics_ok |-> FALSE, quality_reason |-> << >>, rendered |-> FALSE ]

\* Lines 214-218: the metric checker, then under --slow-check and only if
\* it passed, the kerning checker, whose reason replaces the first on failure.
Gate(f, slow) ==
  LET first == check_font_metrics(f)
      second == slow_check_font(f)
  IN  IF first.exc THEN Raise
      ELSE IF slow /\ first.ret[1]
      THEN IF second.exc THEN Raise
           ELSE IF ~second.ret[1] THEN second ELSE Return(<<TRUE, first.ret[2]>>)
      ELSE first

\* What the calls of one iteration give for font file f: an exception that
\* escapes one of them ends main; a skip leaves at `continue`.
Iteration(f, slow) ==
  LET covered == has_required_chars(f)
      info == get_font_info(f)
      quality == Gate(f, slow)
      rendered == render_text(f)
  IN  IF covered.exc THEN Crash(f)
      ELSE IF ~covered.ret THEN Skip(f, FALSE, << >>)
      ELSE IF info.exc THEN Crash(f)
      ELSE IF Falsy(info.ret) THEN Skip(f, TRUE, << >>)
      ELSE IF quality.exc \/ rendered.exc THEN Crash(f)
      ELSE [ crashed |-> FALSE, facts |-> Facts(f), required |-> TRUE,
             info |-> info.ret, metrics_ok |-> quality.ret[1],
             quality_reason |-> quality.ret[2], rendered |-> rendered.ret ]

\* Line 227: lines 228-239 (both counters, the row) run when render_text
\* returned True.  Variant: and only when the quality checks passed.
row_branch_if_ok(rendered, metrics_ok) == rendered /\ metrics_ok
row_branch(rendered, metrics_ok) == rendered

\* The iterations that the font files of MainFonts give rise to.
Iterations == [ slow \in BOOLEAN |-> { Iteration(f, slow) : f \in MainFonts } ]

ProcessFont ==
  /\ pc = "loop"
  /\ idx <= Len(font_iterator)
  /\ \E it \in Iterations[slow_check] :
       LET font_path == font_iterator[idx]
           row == row_branch(it.rendered, it.metrics_ok)
       IN  IF it.crashed
           THEN /\ pc' = "crashed"
                /\ UNCHANGED << idx, total_processed_fonts, fonts_with_issues,
                                table_rows, files, log >>
           ELSE /\ pc' = "loop"
                /\ idx' = idx + 1
                /\ total_processed_fonts' =
                     IF row THEN total_processed_fonts + 1 ELSE total_processed_fonts
                /\ fonts_with_issues' =
                     IF row /\ ~it.metrics_ok
                     THEN fonts_with_issues + 1 ELSE fonts_with_issues
                /\ table_rows' =
                     IF row
                     THEN Append(table_rows,
                                 quality_row(font_path, it.info, it.metrics_ok, it.quality_reason))
                     ELSE table_rows
                /\ files' = IF it.rendered
                            THEN (image_path_of(font_path) :> font_path) @@ files
                            ELSE files
                /\ log' = Append(log, [ font_path |-> font_path,
                                        facts |-> it.facts,
                                        required |-> it.required,
                                        info |-> ~Falsy(it.info),
                                        metrics_ok |-> it.metrics_ok,
                                        rendered |-> it.rendered ])
  /\ UNCHANGED << walk, number, slow_check, fonts, font_iterator, html, mfont, mresult >>

(***************************************************************************)
(* main, lines 241-304: the loop is over, the HTML file is written.        *)
(***************************************************************************)
WriteHtml ==
  /\ pc = "loop"
  /\ idx > Len(font_iterator)
  /\ html' = [ total_processed_fonts |-> total_processed_fonts,
               fonts_with_issues |-> fonts_with_issues,
               tbody |-> table_rows ]
  /\ pc' = "done"
  /\ UNCHANGED << walk, number, slow_check, fonts, font_iterator, idx,
                  total_processed_fonts, fonts_with_issues, table_rows, files,
                  log, mfont, mresult >>

Next == Scan \/ ProcessFont \/ WriteHtml

Spec == Init /\ [][Next]_vars

\* The program is sequential and runs to its end: no step waits on anything.
FairSpec == Spec /\ WF_vars(Next)

(***************************************************************************)
(* The metric checker on its own: a font is drawn from MetricFonts and     *)
(* check_font_metrics is applied to it.                                    *)
(***************************************************************************)
ExcessWidth(upm) == upm * 10 + 1

MetricCmaps ==
  { v \cup r : v \in SUBSET (Varied \cup {Space}), r \in {Rest, {}} }

Widths(upm) == (0..MaxWidth) \cup {ExcessWidth(upm)}

\* The varied glyphs have the widths wv, the space glyph the width ws.
Hmtx(wv, ws) ==
  [ c \in Chars |-> IF c \in Varied THEN wv[c]
                    ELSE IF c = Space THEN ws ELSE NominalWidth ]

MetricInit ==
  /\ pc = "metrics"
  /\ \/ mfont = NotAFont
     \/ \E upm \in 1..MaxUnitsPerEm, cmap \in MetricCmaps, tables \in BOOLEAN :
          \E wv \in [Varied -> Widths(upm)], ws \in 0..MaxSpaceWidth :
             mfont = Font(TRUE, cmap, Hmtx(wv, ws), upm, tables, TRUE, TRUE, GoodProbe, TRUE)
  /\ mresult = NotChecked
  /\ walk = << <<"a", << >> >>, <<"b", << >> >> >>
  /\ number = NoNumber
  /\ slow_check = FALSE
  /\ fonts = << >>
  /\ font_iterator = << >>
  /\ idx = 1
  /\ total_processed_fonts = 0
  /\ fonts_with_issues = 0
  /\ table_rows = << >>
  /\ files = << >>
  /\ html = NotWritten
  /\ log = << >>

CheckMetrics ==
  /\ pc = "metrics"
  /\ mresult' = check_font_metrics(mfont).ret
  /\ pc' = "checked"
  /\ UNCHANGED << mfont, walk, number, slow_check, fonts, font_iterator, idx,
                  total_processed_fonts, fonts_with_issues, table_rows, files,
                  html, log >>

MetricNext == CheckMetrics

MetricSpec == MetricInit /\ [][MetricNext]_vars

(***************************************************************************)
(* Properties of the metric checker (MetricSpec).                          *)
(***************************************************************************)
Checked == pc = "checked"

\* The font opens, has a character map, and its hmtx and head tables read.
Usable(f) == f.openable /\ f.cmap # {} /\ f.metric_tables

MappedAlnum(f) == RequiredSet \cap f.cmap
ZeroMapped(f) == { c \in MappedAlnum(f) : f.hmtx[c] = 0 }
ExcessMapped(f) == { c \in MappedAlnum(f) : f.hmtx[c] > 10 * f.units_per_em }
SaneWidths(f) == ZeroMapped(f) = {} /\ ExcessMapped(f) = {}

CharIndex(c) == CHOOSE i \in 1..Len(required_chars) : required_chars[i] = c
FirstOf(S) == CHOOSE c \in S : \A d \in S : CharIndex(c) <= CharIndex(d)

AlnumCount(f) == Cardinality(MappedAlnum(f))
AlnumSum(f) ==
  LET mapped == SelectSeq(required_chars, LAMBDA c : c \in f.cmap)
  IN  SumSeq([ i \in 1..Len(mapped) |-> f.hmtx[mapped[i]] ])

NoSpaceReason == <<"No space character">>
SpaceWideReason == <<"Space character is excessively wide">>
ZeroReason(c) == <<"Character", c, "has zero width">>
ExcessReason(c) == <<"Character", c, "has excessively large width">>

\* C7 as stated: a font whose character map has no entry for the space
\* character fails with the reason "No space character", whatever the
\* advance widths of its alphanumeric glyphs are.
C7_AsStated ==
  (Checked /\ Usable(mfont) /\ MappedAlnum(mfont) # {} /\ Space \notin mfont.cmap)
    => mresult = <<FALSE, NoSpaceReason>>

\* C7 amended: a font without a space entry always fails; the reason is
\* "No space character" when some required character is mapped and every
\* mapped one has a nonzero advance width of at most 10 units-per-em, and
\* otherwise it is the reason of the check that comes first in the code
\* (zero width, excessively large width, no alphanumeric characters).
C7_NoSpaceFails ==
  (Checked /\ Usable(mfont) /\ Space \notin mfont.cmap)
    => /\ mresult[1] = FALSE
       /\ (MappedAlnum(mfont) # {} /\ SaneWidths(mfont)) => mresult[2] = NoSpaceReason
       /\ MappedAlnum(mfont) = {} => mresult[2] = <<"No alphanumeric characters found">>
       /\ ~SaneWidths(mfont) =>
            \E c \in ZeroMapped(mfont) \cup ExcessMapped(mfont) :
               mresult[2] \in {ZeroReason(c), ExcessReason(c)}

C7_Witness ==
  /\ Checked /\ Usable(mfont) /\ Space \notin mfont.cmap
  /\ AlnumCount(mfont) = Len(required_chars)
  /\ mfont.hmtx["A"] = 2
  /\ mresult = <<FALSE, NoSpaceReason>>

\* C8 as stated: a font in which some required alphanumeric glyph has
\* advance width 0 fails, and the reason names a character whose advance
\* width is 0, whatever the widths of the other glyphs are.
C8_AsStated ==
  (Checked /\ Usable(mfont) /\ ZeroMapped(mfont) # {})
    => /\ mresult[1] = FALSE
       /\ \E c \in ZeroMapped(mfont) : mresult[2] = ZeroReason(c)

\* C8 amended: such a font always fails; the reason names the first
\* zero-width character in the order A-Z, a-z, 0-9 unless a mapped
\* character before it has an advance width above 10 units-per-em, and then
\* the reason names the first such character as excessively wide.
C8_ZeroWidthFails ==
  (Checked /\ Usable(mfont) /\ ZeroMapped(mfont) # {})
    => LET z == FirstOf(ZeroMapped(mfont))
           before == { c \in ExcessMapped(mfont) : CharIndex(c) < CharIndex(z) }
       IN  /\ mresult[1] = FALSE
           /\ before = {} => mresult[2] = ZeroReason(z)
           /\ before # {} => mresult[2] = ExcessReason(FirstOf(before))

C8_Witness ==
  /\ Checked /\ Usable(mfont)
  /\ ZeroMapped(mfont) = {"B"}
  /\ mfont.hmtx["A"] = 2 /\ "A" \in mfont.cmap
  /\ mresult = <<FALSE, ZeroReason("B")>>

\* C9 as stated: a font whose space glyph is strictly wider than 3 times
\* the mean advance width of its mapped alphanumeric glyphs fails with the
\* reason "Space character is excessively wide"; a space exactly 3 times
\* the mean does not.
C9_AsStated ==
  (Checked /\ Usable(mfont) /\ Space \in mfont.cmap /\ MappedAlnum(mfont) # {})
    => /\ (mfont.hmtx[Space] * AlnumCount(mfont) > 3 * AlnumSum(mfont))
            => mresult = <<FALSE, SpaceWideReason>>
       /\ (mfont.hmtx[Space] * AlnumCount(mfont) = 3 * AlnumSum(mfont))
            => mresult[2] # SpaceWideReason

\* C9 amended: the same, for fonts in which every mapped alphanumeric glyph
\* has a nonzero advance width of at most 10 units-per-em (a zero or
\* excessive width is reported instead, before the space is looked at);
\* for such fonts a space of at most 3 times the mean passes.
C9_SpaceWidth ==
  (Checked /\ Usable(mfont) /\ Space \in mfont.cmap /\ MappedAlnum(mfont) # {}
     /\ SaneWidths(mfont))
    => /\ (mfont.hmtx[Space] * AlnumCount(mfont) > 3 * AlnumSum(mfont))
            => mresult = <<FALSE, SpaceWideReason>>
       /\ (mfont.hmtx[Space] * AlnumCount(mfont) <= 3 * AlnumSum(mfont))
            => mresult = <<TRUE, << >> >>

C9_Witness ==
  /\ Checked /\ Usable(mfont) /\ Space \in mfont.cmap /\ SaneWidths(mfont)
  /\ AlnumCount(mfont) = Len(required_chars)
  /\ mfont.hmtx[Space] * AlnumCount(mfont) > 3 * AlnumSum(mfont)
  /\ mfont.hmtx[Space] * AlnumCount(mfont) <= 4 * AlnumSum(mfont)
  /\ mresult = <<FALSE, SpaceWideReason>>

\* The boundary of C9 is met: a space of exactly 3 times the mean passes.
C9_BoundaryReached ==
  /\ Checked /\ Usable(mfont) /\ Space \in mfont.cmap /\ SaneWidths(mfont)
  /\ MappedAlnum(mfont) # {}
  /\ mfont.hmtx[Space] * AlnumCount(mfont) = 3 * AlnumSum(mfont)
  /\ mresult = <<TRUE, << >> >>

(***************************************************************************)
(* Properties of the index builder (Spec, FairSpec).                       *)
(***************************************************************************)
RowsOf(font_path) == { k \in DOMAIN table_rows : table_rows[k].href = font_path }
FailingRows == { k \in DOMAIN table_rows : table_rows[k].quality_icon = FailIcon }

\* C1: a font whose character map lacks a required character, or that has
\* no character map, gets no table row and adds to neither counter: the
\* rows and both counters account only for fonts with full coverage.
C1_NoRowWithoutCoverage ==
  /\ \A i \in DOMAIN log : ~log[i].facts.covers => RowsOf(log[i].font_path) = {}
  /\ total_processed_fonts <= Cardinality({ i \in DOMAIN log : log[i].facts.covers })
  /\ fonts_with_issues <= Cardinality({ i \in DOMAIN log : log[i].facts.covers })
  /\ \A i \in DOMAIN log : ~log[i].facts.covers => ~log[i].rendered

C1_Witness ==
  /\ pc = "done"
  /\ Len(log) = 2
  /\ log[1].facts.openable /\ ~log[1].facts.covers /\ log[1].facts.rasterizes
  /\ log[2].facts.covers
  /\ Len(table_rows) = 1 /\ table_rows[1].href = log[2].font_path
  /\ total_processed_fonts = 1

\* C2: a file that cannot be opened as a font ends nothing: the step that
\* meets it appends no row, changes neither counter and stays in the loop,
\* no run ends on an uncaught error, and every run goes through all of
\* font_iterator and writes the HTML.
C2_UnopenableSkipped ==
  /\ [](pc # "crashed")
  /\ [][ (log' # log /\ ~log'[Len(log')].facts.openable)
           => /\ table_rows' = table_rows
              /\ total_processed_fonts' = total_processed_fonts
              /\ fonts_with_issues' = fonts_with_issues
              /\ pc' = "loop" ]_vars
  /\ <>(pc = "done" /\ Len(log) = Len(font_iterator) /\ html.tbody = table_rows)

C2_Witness ==
  /\ pc = "done"
  /\ Len(log) = 2
  /\ ~log[1].facts.openable
  /\ log[2].rendered
  /\ Len(html.tbody) = 1 /\ html.tbody[1].href = log[2].font_path
  /\ html.total_processed_fonts = 1

\* C3: after every iteration, and in the HTML, total_processed_fonts is the
\* number of rows, fonts_with_issues the number of rows with the failing
\* icon, and the second is at most the first; one font that is covered,
\* passes the checks and rasterizes gives one row, total 1 and issues 0.
C3_CountersMatchRows ==
  /\ total_processed_fonts = Len(table_rows)
  /\ fonts_with_issues = Cardinality(FailingRows)
  /\ fonts_with_issues <= total_processed_fonts
  /\ pc = "done" =>
       /\ html.total_processed_fonts = Len(html.tbody)
       /\ html.fonts_with_issues =
            Cardinality({ k \in DOMAIN html.tbody : html.tbody[k].quality_icon = FailIcon })
       /\ (Len(font_iterator) = 1 /\ log[1].facts.covers /\ log[1].facts.named
             /\ log[1].metrics_ok /\ log[1].facts.rasterizes)
            => /\ Len(html.tbody) = 1
               /\ html.total_processed_fonts = 1
               /\ html.fonts_with_issues = 0

C3_Witness ==
  /\ pc = "done"
  /\ Len(log) = 2
  /\ html.total_processed_fonts = 2
  /\ html.fonts_with_issues = 1
  /\ html.tbody[1].quality_icon = FailIcon
  /\ html.tbody[2].quality_icon = PassIcon

\* C4: a font that is covered, has readable naming metadata and rasterizes
\* gets exactly one row whether or not the quality checks pass; a failure
\* shows as the failing icon with the reason as tooltip and is counted in
\* fonts_with_issues.
C4_QualityFailureKeepsRow ==
  \A i \in DOMAIN log :
    (log[i].facts.covers /\ log[i].facts.named /\ log[i].facts.rasterizes)
      => /\ Cardinality(RowsOf(log[i].font_path)) = 1
         /\ \A k \in RowsOf(log[i].font_path) :
              /\ log[i].metrics_ok =>
                   table_rows[k].quality_icon = PassIcon /\ table_rows[k].title_attr = << >>
              /\ ~log[i].metrics_ok =>
                   /\ table_rows[k].quality_icon = FailIcon
                   /\ table_rows[k].title_attr # << >>
                   /\ k \in FailingRows
                   /\ fonts_with_issues >= 1

C4_Witness ==
  /\ pc = "done"
  /\ slow_check
  /\ Len(log) = 2
  /\ \A i \in 1..2 : log[i].facts.covers /\ log[i].facts.named /\ log[i].facts.rasterizes
  /\ Len(table_rows) = 2
  /\ table_rows[1].title_attr = <<"Potential kerning issue">>
  /\ table_rows[2].title_attr = ZeroReason("B")
  /\ fonts_with_issues = 2

\* C5: with -n N, N >= 0, at most N fonts reach the coverage check, so
\* there are at most N rows and total_processed_fonts <= N.
C5_AtMostN ==
  (pc # "start" /\ number # NoNumber /\ number[1] >= 0)
    => /\ Len(font_iterator) <= number[1]
       /\ Len(log) <= number[1]
       /\ Len(table_rows) <= number[1]
       /\ total_processed_fonts <= number[1]

C5_Witness ==
  /\ pc = "done"
  /\ number = <<1>>
  /\ Len(find_fonts(walk)) = 2
  /\ Len(log) = 1
  /\ total_processed_fonts = 1

\* C6: with -n N the fonts processed are the first N of the discovered
\* paths in sorted order, whatever order the directory walk found them in.
C6_FirstNSorted ==
  (pc # "start" /\ number # NoNumber /\ number[1] >= 0)
    => font_iterator = truncate_sorted(find_fonts(walk), number[1])

\* C10: when the HTML is written, the image each row refers to was written
\* by rendering that row's own font and holds that rendering still.
C10_ThumbnailOfOwnFont ==
  pc = "done" =>
    \A k \in DOMAIN html.tbody :
      /\ html.tbody[k].image_path \in DOMAIN files
      /\ files[html.tbody[k].image_path] = html.tbody[k].href

====
